---- MODULE Spec2Model ----
(***************************************************************************)
(* Model of pipecat's Pipeline (src/pipecat/pipeline/pipeline.py): a chain *)
(* [PipelineSource] + processors + [PipelineSink], linked once at          *)
(* construction, through which frames are routed DOWNSTREAM or UPSTREAM,   *)
(* with recursive discovery of the processors that can generate metrics    *)
(* and ordered cleanup.                                                    *)
(*                                                                         *)
(* Every coroutine call is one activation record on `stack`; a step runs   *)
(* the record on top up to its next await.  FrameProcessor (link,          *)
(* push_frame, cleanup, can_generate_metrics, name, metrics_enabled) is    *)
(* not part of pipeline.py and is modelled from the Node contract.         *)
(***************************************************************************)
EXTENDS Integers, Sequences, FiniteSets, TLC

\* ------------------------------------------------------------------ bounds

\* Frames the driver submits to the top-level pipeline in one run.
MaxFrames == 2

\* processors_with_metrics() calls the driver makes in one run.
MaxQueries == 2

\* Times the event loop switches between two callers in one run.
MaxSwitches == 2

\* ------------------------------------------------------------- the objects

\* A processor is <<class, name>>.
Leaf(n) == <<"leaf", n>>
Pipe(n) == <<"pipeline", n>>
None == <<"none", "">>

\* The pipelines of a run: "P" is the one the driver owns, "C" may be nested
\* in P and "Q" in C.
PipelineNames == {"P", "C", "Q"}
Top == "P"

\* The processors each pipeline's list is drawn from (no processor is put in
\* two chains: a chain owns its nodes).
Pool(p) ==
    CASE p = "P" -> {Leaf("A"), Leaf("B"), Pipe("C")}
      [] p = "C" -> {Leaf("D"), Pipe("Q")}
      [] p = "Q" -> {Leaf("E")}

Leaves == {Leaf("A"), Leaf("B"), Leaf("D"), Leaf("E")}
Pipelines == {Pipe(p) : p \in PipelineNames}

IsPipeline(x) == x[1] = "pipeline"
IsLeaf(x) == x[1] = "leaf"

DOWNSTREAM == "DOWNSTREAM"
UPSTREAM == "UPSTREAM"
Directions == {DOWNSTREAM, UPSTREAM}

\* ------------------------------------------------------- sequence helpers

Range(s) == {s[i] : i \in 1..Len(s)}

InjectiveSeqs(S) ==
    {s \in UNION {[1..n -> S] : n \in 0..Cardinality(S)} :
        \A i, j \in 1..Len(s) : s[i] = s[j] => i = j}

Reverse(s) == [i \in 1..Len(s) |-> s[Len(s) + 1 - i]]

RECURSIVE SelectSeqBy(_, _)
\* The subsequence of s whose elements are in the set S.
SelectSeqBy(s, S) ==
    IF s = <<>> THEN <<>>
    ELSE (IF Head(s) \in S THEN <<Head(s)>> ELSE <<>>) \o SelectSeqBy(Tail(s), S)

\* ------------------------------------------------------------------ state

VARIABLES
    args,             \* args[p]: the list a pipeline is (to be) constructed from
    metrics_enabled,  \* metrics_enabled[p]: FrameProcessor.metrics_enabled of pipeline p
    built,            \* the pipelines whose __init__ has run
    source,           \* source[p]: Pipeline._source
    sink,             \* sink[p]: Pipeline._sink
    processors,       \* processors[p]: Pipeline._processors
    next,             \* next[x]: FrameProcessor._next
    prev,             \* prev[x]: FrameProcessor._prev
    links,            \* every link(a, b) call made so far, in order
    stack,            \* the coroutine call chain, innermost last
    log,              \* what the processors and the bridging callbacks saw, in order
    cleaned,          \* the cleanup() calls begun and ended, in order
    nframes,          \* frames created so far (submitted or synthesized)
    submitted,        \* the frames the driver passed to process_frame, in order
    closed,           \* cleanup() of the top pipeline was called
    query,            \* the last processors_with_metrics() call of the driver and its result
    asked,            \* processors_with_metrics() calls the driver has made
    faulty,           \* the user processor whose calls raise, or None
    raised,           \* the exceptions that reached the driver, in order
    parked,           \* the suspended call chain of a second caller
    overlapped,       \* a call was made while another had not returned
    switches          \* the times the event loop switched callers

vars == <<args, metrics_enabled, built, source, sink, processors, next, prev,
          links, stack, log, cleaned, nframes, submitted, closed, query,
          asked,
          faulty,
          raised,
          parked,
          overlapped,
          switches>>

Src(p) == <<"source", p>>
Snk(p) == <<"sink", p>>
Boundaries == {Src(p) : p \in PipelineNames} \cup {Snk(p) : p \in PipelineNames}
Nodes == Leaves \cup Pipelines \cup Boundaries

\* The pipelines a run uses: the top one and those nested below it.
Used(a) ==
    {Top} \cup {p \in PipelineNames : \E q \in PipelineNames :
                   /\ Pipe(p) \in Range(a[q])
                   /\ (q = Top \/ Pipe(q) \in Range(a[Top]))}

\* The lists a run may start from: any order of any subset of each pool; a
\* pipeline that is nested nowhere is not constructed and gets no list.
Configs ==
    {a \in [PipelineNames -> UNION {InjectiveSeqs(Pool(p)) : p \in PipelineNames}] :
        /\ \A p \in PipelineNames : Range(a[p]) \subseteq Pool(p)
        /\ \A p \in PipelineNames : p \notin Used(a) => a[p] = <<>>}

\* The same with each list in the order of PoolOrder: the runs in which
\* frames are routed.
PoolOrder(p) ==
    CASE p = "P" -> <<Leaf("A"), Pipe("C"), Leaf("B")>>
      [] p = "C" -> <<Leaf("D"), Pipe("Q")>>
      [] p = "Q" -> <<Leaf("E")>>

OrderedConfigs ==
    {a \in Configs : \A p \in PipelineNames : a[p] = SelectSeqBy(PoolOrder(p), Range(a[p]))}

NoQuery == [of |-> "", result |-> <<>>]

Start(configs) ==
    /\ args \in configs
    /\ metrics_enabled \in [PipelineNames -> BOOLEAN]
    /\ \A p \in PipelineNames : p \notin Used(args) => ~metrics_enabled[p]
    /\ built = {}
    /\ source = [p \in PipelineNames |-> None]
    /\ sink = [p \in PipelineNames |-> None]
    /\ processors = [p \in PipelineNames |-> <<>>]
    /\ next = [x \in Nodes |-> None]
    /\ prev = [x \in Nodes |-> None]
    /\ links = <<>>
    /\ stack = <<>>
    /\ log = <<>>
    /\ cleaned = <<>>
    /\ nframes = 0
    /\ submitted = <<>>
    /\ closed = FALSE
    /\ query = NoQuery
    /\ asked = 0
    /\ raised = <<>>
    /\ parked = <<>>
    /\ overlapped = FALSE
    /\ switches = 0

\* No processor raises.
Init == Start(OrderedConfigs) /\ faulty = None

InitLifecycle == Start(Configs) /\ faulty = None

\* The user processors of the pipelines of configuration a.
UsedLeaves(a) == {x \in Leaves : \E p \in Used(a) : x \in Range(a[p])}

\* One user processor raises whenever it is called.
InitFail == Start(OrderedConfigs) /\ faulty \in UsedLeaves(args)

InitTeardownFail == Start(Configs) /\ faulty \in UsedLeaves(args)

\* ----------------------------------------------------------- construction

\* FrameProcessor.link(a, b): registers the adjacency in both directions.
Link(st, a, b) ==
    [nx |-> [st.nx EXCEPT ![a] = b],
     pv |-> [st.pv EXCEPT ![b] = a],
     ln |-> Append(st.ln, <<a, b>>)]

RECURSIVE LinkFromStuck(_, _, _)
\* Mutant of LinkFrom: the loop forgets `prev = curr`.
LinkFromStuck(st, p, rest) ==
    IF rest = <<>> THEN st
    ELSE LinkFromStuck(Link(st, p, Head(rest)), p, Tail(rest))

RECURSIVE LinkFrom(_, _, _)
\* The loop of Pipeline._link_processors: rest = the processors still to
\* visit, p = prev.
LinkFrom(st, p, rest) ==
    IF rest = <<>> THEN st
    ELSE LinkFrom(Link(st, p, Head(rest)), Head(rest), Tail(rest))

\* Mutant of LinkProcessors: the loop starts one processor too late.
LinkProcessorsLate(st, procs) ==
    IF Len(procs) < 2 THEN st ELSE LinkFrom(st, procs[2], Tail(Tail(procs)))

\* Mutant of LinkProcessors: the loop is run twice over the list.
LinkProcessorsTwice(st, procs) ==
    LinkFrom(LinkFrom(st, procs[1], Tail(procs)), procs[1], Tail(procs))

\* Pipeline._link_processors
LinkProcessors(st, procs) == LinkFrom(st, procs[1], Tail(procs))

\* The list Pipeline.__init__ stores in self._processors.
Chain(p, user) == <<Src(p)>> \o user \o <<Snk(p)>>

\* Pipeline.__init__(processors): Python builds the nested pipelines of the
\* list before the call.
Construct(p) ==
    /\ p \in Used(args) \ built
    /\ \A x \in Range(args[p]) : IsPipeline(x) => x[2] \in built
    /\ LET chain == Chain(p, args[p])
           st == LinkProcessors([nx |-> next, pv |-> prev, ln |-> links], chain)
       IN /\ source' = [source EXCEPT ![p] = Src(p)]
          /\ sink' = [sink EXCEPT ![p] = Snk(p)]
          /\ processors' = [processors EXCEPT ![p] = chain]
          /\ next' = st.nx
          /\ prev' = st.pv
          /\ links' = st.ln
    /\ built' = built \cup {p}
    /\ UNCHANGED <<args, metrics_enabled, stack, log, cleaned, nframes, submitted, closed, query,
                   asked,
                   faulty,
                   raised,
                   parked,
                   overlapped,
                   switches>>

\* ----------------------------------------------------------------- frames

\* MetricsFrame.ttfb of a frame that is no MetricsFrame.
NoTtfb == [n \in {} |-> 0]

\* A frame: its identity, its class and, for a MetricsFrame, its ttfb dict.
StartFrame(id) == [id |-> id, kind |-> "StartFrame", ttfb |-> NoTtfb]
DataFrame(id) == [id |-> id, kind |-> "Frame", ttfb |-> NoTtfb]
MetricsFrame(id, ttfb) == [id |-> id, kind |-> "MetricsFrame", ttfb |-> ttfb]
NoFrame == [id |-> 0, kind |-> "", ttfb |-> NoTtfb]

FrameKinds == {"StartFrame", "Frame"}
NewFrame(kind, id) == IF kind = "StartFrame" THEN StartFrame(id) ELSE DataFrame(id)

\* FrameProcessor.name: the identifier of a processor.
Name(x) == x[2]

\* FrameProcessor.can_generate_metrics(): False unless a processor overrides
\* it; the boundary processors do not.
CanGenerateMetrics(x) == x \in {Leaf("A"), Leaf("D"), Leaf("E")}

\* zip(a, b): the pairs up to the shorter length.
Zip(a, b) ==
    [i \in 1..(IF Len(a) < Len(b) THEN Len(a) ELSE Len(b)) |-> <<a[i], b[i]>>]

\* dict(pairs): the last pair of a key gives its value.
Dict(pairs) ==
    [k \in {pairs[i][1] : i \in 1..Len(pairs)} |->
        pairs[CHOOSE i \in 1..Len(pairs) :
                  /\ pairs[i][1] = k
                  /\ \A j \in 1..Len(pairs) : pairs[j][1] = k => j <= i][2]]

\* [v] * n
Repeat(v, n) == [i \in 1..n |-> v]

\* ------------------------------------------------------- metrics discovery

RECURSIVE ProcessorsWithMetricsOf(_, _)
RECURSIVE ProcessorsWithMetrics(_, _)
RECURSIVE ProcessorsWithMetricsShallow(_, _)
\* Mutant of ProcessorsWithMetricsOf: a nested pipeline is asked
\* can_generate_metrics() like any processor instead of being expanded.
ProcessorsWithMetricsShallow(rest, procs) ==
    IF rest = <<>> THEN <<>>
    ELSE (IF CanGenerateMetrics(Head(rest)) THEN <<Head(rest)>> ELSE <<>>)
         \o ProcessorsWithMetricsShallow(Tail(rest), procs)

\* The loop of Pipeline.processors_with_metrics over the processors rest of
\* its list.
ProcessorsWithMetricsOf(rest, procs) ==
    IF rest = <<>> THEN <<>>
    ELSE LET x == Head(rest)
             services == IF IsPipeline(x) THEN ProcessorsWithMetrics(x[2], procs)
                         ELSE IF CanGenerateMetrics(x) THEN <<x>>
                         ELSE <<>>
         IN services \o ProcessorsWithMetricsOf(Tail(rest), procs)

\* Pipeline.processors_with_metrics(), procs being every pipeline's
\* _processors.
ProcessorsWithMetrics(p, procs) == ProcessorsWithMetricsOf(procs[p], procs)

\* Mutant of QueryMetrics: the result list is kept between calls and
\* appended to, not rebuilt, so a second call returns a longer list.
QueryMetricsAccumulating(p) ==
    /\ p \in built
    /\ Top \in built
    /\ stack = <<>>
    /\ ~closed
    /\ asked < MaxQueries
    /\ asked' = asked + 1
    /\ query' = [of |-> p, result |-> query.result \o ProcessorsWithMetrics(p, processors)]
    /\ UNCHANGED <<args, metrics_enabled, built, source, sink, processors, next, prev,
                   links, stack, log, cleaned, nframes, submitted, closed,
                   faulty,
                   raised,
                   parked,
                   overlapped,
                   switches>>

\* The driver calls processors_with_metrics() of a pipeline it has built:
\* `services` is a fresh local list on every call and nothing of the
\* pipeline is assigned.
QueryMetrics(p) ==
    /\ p \in built
    /\ Top \in built
    /\ stack = <<>>
    /\ ~closed
    /\ asked < MaxQueries
    /\ asked' = asked + 1
    /\ query' = [of |-> p, result |-> ProcessorsWithMetrics(p, processors)]
    /\ UNCHANGED <<args, metrics_enabled, built, source, sink, processors, next, prev,
                   links, stack, log, cleaned, nframes, submitted, closed,
                   faulty,
                   raised,
                   parked,
                   overlapped,
                   switches>>

\* Mutant of InitialMetricsFrame: the dict is keyed by every processor of
\* the list, not by those of processors_with_metrics().
InitialMetricsFrameAll(p, procs, id) ==
    LET ps == procs[p]
        names == [i \in 1..Len(ps) |-> Name(ps[i])]
    IN MetricsFrame(id, Dict(Zip(names, Repeat(0, Len(ps)))))

\* The frame Pipeline._send_initial_metrics builds.
InitialMetricsFrame(p, procs, id) ==
    LET ps == ProcessorsWithMetrics(p, procs)
        names == [i \in 1..Len(ps) |-> Name(ps[i])]
        ttfb == Dict(Zip(names, Repeat(0, Len(ps))))
    IN MetricsFrame(id, ttfb)

\* ---------------------------------------------------------------- routing

\* One activation record of the call chain.
Call(fn, x, frame, dir) ==
    [fn |-> fn, node |-> x, frame |-> frame, dir |-> dir, pc |-> "start", i |-> 1, todo |-> <<>>]

Cur == stack[Len(stack)]
Running(fn, class) ==
    /\ stack # <<>>
    /\ Cur.fn = fn
    /\ Cur.node[1] = class
    /\ Cur.pc = "start"

\* The call chain once the running record has moved to pc and awaits calls.
Await(pc, calls) == SubSeq(stack, 1, Len(stack) - 1) \o <<[Cur EXCEPT !.pc = pc]>> \o calls

Seen(op, x, frame, dir) == [op |-> op, node |-> x, frame |-> frame, dir |-> dir]

\* FrameProcessor.push_frame(frame, direction) of processor x: the call it
\* awaits, process_frame of the neighbour in that direction, if there is one.
PushFrame(x, frame, dir, nx, pv) ==
    LET to == IF dir = DOWNSTREAM THEN nx[x] ELSE pv[x]
    IN IF to = None THEN <<>> ELSE <<Call("process_frame", to, frame, dir)>>

\* A caller awaits process_frame(frame, direction) of the top pipeline.
\* Nothing in Pipeline.process_frame keeps it from starting while a call of
\* another caller is suspended.
Submit(kind, dir) ==
    /\ Top \in built
    /\ stack = <<>>
    /\ ~closed
    /\ Len(submitted) < MaxFrames
    /\ LET frame == NewFrame(kind, nframes + 1)
       IN /\ stack' = <<Call("process_frame", Pipe(Top), frame, dir)>>
          /\ submitted' = Append(submitted, [frame |-> frame, dir |-> dir])
    /\ nframes' = nframes + 1
    /\ overlapped' = (overlapped \/ parked # <<>>)
    /\ UNCHANGED <<args, metrics_enabled, built, source, sink, processors, next, prev,
                   links, log, cleaned, closed, query, asked, faulty, raised, parked,
                   switches>>

\* The event loop suspends the running call chain at an await and resumes
\* the other caller's, or lets the other caller make a call.
Switch ==
    /\ stack # <<>> \/ parked # <<>>
    /\ switches < MaxSwitches
    /\ switches' = switches + 1
    /\ stack' = parked
    /\ parked' = stack
    /\ UNCHANGED <<args, metrics_enabled, built, source, sink, processors, next, prev,
                   links, log, cleaned, nframes, submitted, closed, query, asked, faulty,
                   raised, overlapped>>

\* Mutant of Inject: the frame is handed on with the opposite direction.
InjectWrongWay(p, frame, dir) ==
    IF dir = DOWNSTREAM THEN <<Call("process_frame", source[p], frame, UPSTREAM)>>
    ELSE IF dir = UPSTREAM THEN <<Call("process_frame", sink[p], frame, DOWNSTREAM)>>
    ELSE <<>>

\* Mutant of Inject: _source and _sink are swapped.
InjectSwapped(p, frame, dir) ==
    IF dir = DOWNSTREAM THEN <<Call("process_frame", sink[p], frame, DOWNSTREAM)>>
    ELSE IF dir = UPSTREAM THEN <<Call("process_frame", source[p], frame, UPSTREAM)>>
    ELSE <<>>

\* Where Pipeline.process_frame injects a frame travelling in direction dir.
Inject(p, frame, dir) ==
    IF dir = DOWNSTREAM THEN <<Call("process_frame", source[p], frame, DOWNSTREAM)>>
    ELSE IF dir = UPSTREAM THEN <<Call("process_frame", sink[p], frame, UPSTREAM)>>
    ELSE <<>>

\* Mutant of Awaits: the frame is injected before the initial metrics.
AwaitsStartFirst(p, frame, dir) ==
    Inject(p, frame, dir)
    \o (IF frame.kind = "StartFrame" /\ metrics_enabled[p]
        THEN <<Call("_send_initial_metrics", Pipe(p), NoFrame, DOWNSTREAM)>>
        ELSE <<>>)

\* Mutant of Awaits: only the top pipeline sends initial metrics.
AwaitsTopOnly(p, frame, dir) ==
    (IF frame.kind = "StartFrame" /\ metrics_enabled[p] /\ p = Top
     THEN <<Call("_send_initial_metrics", Pipe(p), NoFrame, DOWNSTREAM)>>
     ELSE <<>>)
    \o Inject(p, frame, dir)

\* Mutant of Awaits: the initial metrics are sent for every frame, not for a
\* StartFrame only.
AwaitsEveryFrame(p, frame, dir) ==
    (IF metrics_enabled[p]
     THEN <<Call("_send_initial_metrics", Pipe(p), NoFrame, DOWNSTREAM)>>
     ELSE <<>>)
    \o Inject(p, frame, dir)

\* The calls Pipeline.process_frame awaits, in order: _send_initial_metrics
\* for a StartFrame when metrics are enabled, then the injection.
Awaits(p, frame, dir) ==
    (IF frame.kind = "StartFrame" /\ metrics_enabled[p]
     THEN <<Call("_send_initial_metrics", Pipe(p), NoFrame, DOWNSTREAM)>>
     ELSE <<>>)
    \o Inject(p, frame, dir)

\* Mutant of AwaitNext: the calls are started but not awaited, and the
\* coroutine returns at once.
AwaitNextDetached(todo) == Await("done", <<>>)

\* The call chain once the running record awaits the first of the calls todo.
AwaitNext(todo) ==
    IF todo = <<>> THEN Await("done", <<>>)
    ELSE SubSeq(stack, 1, Len(stack) - 1)
         \o <<[Cur EXCEPT !.pc = IF Len(todo) = 1 THEN "done" ELSE "route", !.todo = Tail(todo)]>>
         \o <<Head(todo)>>

\* Pipeline.process_frame up to its first await.
PipelineProcessFrame ==
    /\ Running("process_frame", "pipeline")
    /\ log' = Append(log, Seen("process_frame", Cur.node, Cur.frame, Cur.dir))
    /\ stack' = AwaitNext(Awaits(Cur.node[2], Cur.frame, Cur.dir))
    /\ UNCHANGED <<args, metrics_enabled, built, source, sink, processors, next, prev,
                   links, cleaned, nframes, submitted, closed, query,
                   asked,
                   faulty,
                   raised,
                   parked,
                   overlapped,
                   switches>>

\* Pipeline.process_frame after _send_initial_metrics returned: its next
\* await.
PipelineRoute ==
    /\ stack # <<>>
    /\ Cur.fn = "process_frame"
    /\ Cur.pc = "route"
    /\ stack' = AwaitNext(Cur.todo)
    /\ UNCHANGED <<args, metrics_enabled, built, source, sink, processors, next, prev,
                   links, log, cleaned, nframes, submitted, closed, query,
                   asked,
                   faulty,
                   raised,
                   parked,
                   overlapped,
                   switches>>

\* Mutant of InjectMetrics: the frame is injected at the sink, UPSTREAM.
InjectMetricsAtSink(p, frame) == <<Call("process_frame", sink[p], frame, UPSTREAM)>>

\* The call Pipeline._send_initial_metrics awaits for the frame it built.
InjectMetrics(p, frame) == <<Call("process_frame", source[p], frame, DOWNSTREAM)>>

\* Pipeline._send_initial_metrics
SendInitialMetrics ==
    /\ Running("_send_initial_metrics", "pipeline")
    /\ LET p == Cur.node[2]
           frame == InitialMetricsFrame(p, processors, nframes + 1)
       IN stack' = Await("done", InjectMetrics(p, frame))
    /\ nframes' = nframes + 1
    /\ UNCHANGED <<args, metrics_enabled, built, source, sink, processors, next, prev,
                   links, log, cleaned, submitted, closed, query,
                   asked,
                   faulty,
                   raised,
                   parked,
                   overlapped,
                   switches>>

\* Mutant of SourceDispatch: an UPSTREAM frame is pushed with the source's own
\* push_frame instead of the callback given at construction.
SourceDispatchOwnPush(p, frame, dir, nx, pv) ==
    [seen |-> <<>>, calls |-> PushFrame(Src(p), frame, dir, nx, pv)]

\* The match of PipelineSource.process_frame: what the source of pipeline p
\* calls for a frame, and the call that awaits.
SourceDispatch(p, frame, dir, nx, pv) ==
    IF dir = UPSTREAM
    THEN [seen |-> <<Seen("upstream_push_frame", Pipe(p), frame, dir)>>,
          calls |-> PushFrame(Pipe(p), frame, dir, nx, pv)]
    ELSE IF dir = DOWNSTREAM
    THEN [seen |-> <<>>, calls |-> PushFrame(Src(p), frame, dir, nx, pv)]
    ELSE [seen |-> <<>>, calls |-> <<>>]

\* PipelineSource.process_frame
SourceProcessFrame ==
    /\ Running("process_frame", "source")
    /\ LET d == SourceDispatch(Cur.node[2], Cur.frame, Cur.dir, next, prev)
       IN /\ log' = Append(log, Seen("process_frame", Cur.node, Cur.frame, Cur.dir)) \o d.seen
          /\ stack' = Await("done", d.calls)
    /\ UNCHANGED <<args, metrics_enabled, built, source, sink, processors, next, prev,
                   links, cleaned, nframes, submitted, closed, query,
                   asked,
                   faulty,
                   raised,
                   parked,
                   overlapped,
                   switches>>

\* Mutant of SinkDispatch: a DOWNSTREAM frame is pushed with the sink's own
\* push_frame instead of the callback given at construction.
SinkDispatchOwnPush(p, frame, dir, nx, pv) ==
    [seen |-> <<>>, calls |-> PushFrame(Snk(p), frame, dir, nx, pv)]

\* The match of PipelineSink.process_frame.
SinkDispatch(p, frame, dir, nx, pv) ==
    IF dir = UPSTREAM
    THEN [seen |-> <<>>, calls |-> PushFrame(Snk(p), frame, dir, nx, pv)]
    ELSE IF dir = DOWNSTREAM
    THEN [seen |-> <<Seen("downstream_push_frame", Pipe(p), frame, dir)>>,
          calls |-> PushFrame(Pipe(p), frame, dir, nx, pv)]
    ELSE [seen |-> <<>>, calls |-> <<>>]

\* PipelineSink.process_frame
SinkProcessFrame ==
    /\ Running("process_frame", "sink")
    /\ LET d == SinkDispatch(Cur.node[2], Cur.frame, Cur.dir, next, prev)
       IN /\ log' = Append(log, Seen("process_frame", Cur.node, Cur.frame, Cur.dir)) \o d.seen
          /\ stack' = Await("done", d.calls)
    /\ UNCHANGED <<args, metrics_enabled, built, source, sink, processors, next, prev,
                   links, cleaned, nframes, submitted, closed, query,
                   asked,
                   faulty,
                   raised,
                   parked,
                   overlapped,
                   switches>>

\* process_frame of a user processor that is no pipeline: it passes the
\* frame on in the direction it came from.
LeafProcessFrame ==
    /\ Running("process_frame", "leaf")
    /\ Cur.node # faulty
    /\ log' = Append(log, Seen("process_frame", Cur.node, Cur.frame, Cur.dir))
    /\ stack' = Await("done", PushFrame(Cur.node, Cur.frame, Cur.dir, next, prev))
    /\ UNCHANGED <<args, metrics_enabled, built, source, sink, processors, next, prev,
                   links, cleaned, nframes, submitted, closed, query,
                   asked,
                   faulty,
                   raised,
                   parked,
                   overlapped,
                   switches>>

\* An exception as the driver receives it.
Failure(fn, x, frame) == [fn |-> fn, node |-> x, frame |-> frame]

\* Mutant of Propagate: Pipeline.process_frame wraps its awaits in a handler
\* that swallows the exception, so the innermost pipeline returns normally.
PropagateSwallowed(stk) ==
    LET ks == {k \in 1..Len(stk) : stk[k].fn = "process_frame" /\ stk[k].node[1] = "pipeline"}
    IN IF ks = {} THEN <<>>
       ELSE LET k == CHOOSE k \in ks : \A l \in ks : l <= k
            IN SubSeq(stk, 1, k - 1) \o <<[stk[k] EXCEPT !.pc = "done"]>>

\* The call chain once the innermost coroutine of stk has raised: none of
\* process_frame, _send_initial_metrics, _cleanup_processors or cleanup has a
\* handler, so every awaiting coroutine is left and the driver gets the
\* exception.
Propagate(stk) == <<>>

\* process_frame of the faulty user processor: it gets the frame and raises.
LeafRaises ==
    /\ Running("process_frame", "leaf")
    /\ Cur.node = faulty
    /\ log' = Append(log, Seen("process_frame", Cur.node, Cur.frame, Cur.dir))
    /\ stack' = Propagate(stack)
    /\ raised' = IF Propagate(stack) = <<>>
                 THEN Append(raised, Failure("process_frame", Cur.node, Cur.frame))
                 ELSE raised
    /\ UNCHANGED <<args, metrics_enabled, built, source, sink, processors, next, prev,
                   links, cleaned, nframes, submitted, closed, query, asked, faulty,
                   parked,
                   overlapped,
                   switches>>

RECURSIVE Unwind(_)
\* The call chain once every coroutine with nothing left to await has
\* returned to its caller.
Unwind(stk) ==
    IF stk # <<>> /\ stk[Len(stk)].pc = "done"
    THEN Unwind(SubSeq(stk, 1, Len(stk) - 1))
    ELSE stk

RECURSIVE Ended(_)
\* The cleanup() calls that return when the chain stk unwinds, innermost
\* first.
Ended(stk) ==
    IF stk # <<>> /\ stk[Len(stk)].pc = "done"
    THEN (IF stk[Len(stk)].fn = "cleanup" THEN <<<<"end", stk[Len(stk)].node>>>> ELSE <<>>)
         \o Ended(SubSeq(stk, 1, Len(stk) - 1))
    ELSE <<>>

\* The awaited coroutine is done: it returns, and so does every caller that
\* awaited it as its last statement.
Return ==
    /\ stack # <<>>
    /\ Cur.pc = "done"
    /\ stack' = Unwind(stack)
    /\ cleaned' = cleaned \o Ended(stack)
    /\ UNCHANGED <<args, metrics_enabled, built, source, sink, processors, next, prev,
                   links, log, nframes, submitted, closed, query,
                   asked,
                   faulty,
                   raised,
                   parked,
                   overlapped,
                   switches>>

\* ---------------------------------------------------------------- cleanup

\* The driver awaits cleanup() of the top pipeline, once, when no frame is
\* being routed.
Cleanup ==
    /\ Top \in built
    /\ stack = <<>>
    /\ ~closed
    /\ closed' = TRUE
    /\ stack' = <<Call("cleanup", Pipe(Top), NoFrame, DOWNSTREAM)>>
    /\ cleaned' = Append(cleaned, <<"begin", Pipe(Top)>>)
    /\ UNCHANGED <<args, metrics_enabled, built, source, sink, processors, next, prev,
                   links, log, nframes, submitted, query,
                   asked,
                   faulty,
                   raised,
                   parked,
                   overlapped,
                   switches>>

\* Mutant of CleanupList: only the processors the pipeline was given are
\* cleaned up, not the source and the sink it created.
CleanupListUser(p, procs) == SubSeq(procs[p], 2, Len(procs[p]) - 1)

\* Mutant of CleanupList: cleanup() of a nested pipeline does not go through
\* its own processors.
CleanupListShallow(p, procs) == IF p = Top THEN procs[p] ELSE <<>>

\* The processors Pipeline._cleanup_processors iterates over, in its order.
CleanupList(p, procs) == procs[p]

\* Pipeline.cleanup -> Pipeline._cleanup_processors: one turn of its loop,
\* awaiting cleanup() of the next processor of the list.
PipelineCleanup ==
    /\ stack # <<>>
    /\ Cur.fn = "cleanup"
    /\ Cur.node[1] = "pipeline"
    /\ Cur.pc = "start"
    /\ LET procs == CleanupList(Cur.node[2], processors)
       IN IF Cur.i <= Len(procs)
          THEN /\ stack' = SubSeq(stack, 1, Len(stack) - 1)
                             \o <<[Cur EXCEPT !.i = Cur.i + 1]>>
                             \o <<Call("cleanup", procs[Cur.i], NoFrame, DOWNSTREAM)>>
               /\ cleaned' = Append(cleaned, <<"begin", procs[Cur.i]>>)
          ELSE /\ stack' = Await("done", <<>>)
               /\ cleaned' = cleaned
    /\ UNCHANGED <<args, metrics_enabled, built, source, sink, processors, next, prev,
                   links, log, nframes, submitted, closed, query,
                   asked,
                   faulty,
                   raised,
                   parked,
                   overlapped,
                   switches>>

\* FrameProcessor.cleanup of a processor that is no pipeline.
ProcessorCleanup ==
    /\ stack # <<>>
    /\ Cur.fn = "cleanup"
    /\ Cur.node[1] # "pipeline"
    /\ Cur.node # faulty
    /\ Cur.pc = "start"
    /\ stack' = Await("done", <<>>)
    /\ UNCHANGED <<args, metrics_enabled, built, source, sink, processors, next, prev,
                   links, log, cleaned, nframes, submitted, closed, query,
                   asked,
                   faulty,
                   raised,
                   parked,
                   overlapped,
                   switches>>

\* cleanup() of the faulty user processor: it raises.
CleanupRaises ==
    /\ stack # <<>>
    /\ Cur.fn = "cleanup"
    /\ Cur.node = faulty
    /\ Cur.pc = "start"
    /\ stack' = Propagate(stack)
    /\ raised' = IF Propagate(stack) = <<>>
                 THEN Append(raised, Failure("cleanup", Cur.node, NoFrame))
                 ELSE raised
    /\ UNCHANGED <<args, metrics_enabled, built, source, sink, processors, next, prev,
                   links, log, cleaned, nframes, submitted, closed, query, asked, faulty,
                   parked,
                   overlapped,
                   switches>>

\* Construction and routing.
Next ==
    \/ \E p \in PipelineNames : Construct(p)
    \/ \E kind \in FrameKinds, dir \in Directions : Submit(kind, dir)
    \/ PipelineProcessFrame
    \/ PipelineRoute
    \/ SendInitialMetrics
    \/ SourceProcessFrame
    \/ SinkProcessFrame
    \/ LeafProcessFrame
    \/ Return

Spec == Init /\ [][Next]_vars

\* A step of the awaited call chain.
Run ==
    \/ PipelineProcessFrame
    \/ PipelineRoute
    \/ SendInitialMetrics
    \/ SourceProcessFrame
    \/ SinkProcessFrame
    \/ LeafProcessFrame
    \/ Return

\* Construction, metrics discovery and cleanup, for every order of the
\* lists: none of them reads what routing writes.
NextLifecycle ==
    \/ \E p \in PipelineNames : Construct(p)
    \/ \E p \in PipelineNames : QueryMetrics(p)
    \/ Cleanup
    \/ PipelineCleanup
    \/ ProcessorCleanup
    \/ Return

SpecLifecycle == InitLifecycle /\ [][NextLifecycle]_vars

\* Every operation of a pipeline: construction, routing, metrics discovery
\* and cleanup, on the three-level nesting of the longest lists.
NextAll ==
    \/ Next
    \/ NextLifecycle

InitAll == Init /\ \A p \in PipelineNames : args[p] = PoolOrder(p)

SpecAll == InitAll /\ [][NextAll]_vars

\* Routing of DOWNSTREAM frames with two callers, every await a point where
\* the event loop may switch between them.
NextConcurrent ==
    \/ \E p \in PipelineNames : Construct(p)
    \/ \E kind \in FrameKinds : Submit(kind, DOWNSTREAM)
    \/ Run
    \/ Switch

\* Two callers of one flat pipeline.
InitConcurrent == Init /\ Used(args) = {Top}

SpecConcurrent == InitConcurrent /\ [][NextConcurrent]_vars

\* Routing when one user processor raises.
NextFail ==
    \/ Next
    \/ LeafRaises

SpecFail == InitFail /\ [][NextFail]_vars

\* Construction and cleanup when cleanup() of one user processor raises.
NextTeardownFail ==
    \/ \E p \in PipelineNames : Construct(p)
    \/ Cleanup
    \/ PipelineCleanup
    \/ ProcessorCleanup
    \/ CleanupRaises
    \/ Return

SpecTeardownFail == InitTeardownFail /\ [][NextTeardownFail]_vars

\* ============================================================ properties

\* What the spec calls the chain of pipeline p, from the list it was given.
SpecChain(p) == <<Src(p)>> \o args[p] \o <<Snk(p)>>

\* C1: after construction a pipeline's chain has its n user processors
\* between its source and its sink, n+2 entries in that order, each
\* consecutive pair linked in both directions, with nothing before the
\* source and nothing after the sink.
C1_ChainBuilt ==
    \A p \in built :
        LET chain == processors[p]
            n == Len(args[p])
        IN /\ Len(chain) = n + 2
           /\ chain[1] = Src(p) /\ source[p] = Src(p)
           /\ chain[n + 2] = Snk(p) /\ sink[p] = Snk(p)
           /\ \A i \in 1..n : chain[i + 1] = args[p][i]
           /\ \A i \in 1..(n + 1) :
                  /\ next[chain[i]] = chain[i + 1]
                  /\ prev[chain[i + 1]] = chain[i]
           /\ prev[Src(p)] = None
           /\ next[Snk(p)] = None

\* A three-level nesting with the longest lists is fully built.
C1_Witness ==
    /\ built = PipelineNames
    /\ Len(args["P"]) = 3
    /\ Len(args["C"]) = 2
    /\ Len(args["Q"]) = 1

RECURSIVE FlatLeaves(_)
RECURSIVE FlatLeavesOf(_)
\* The user processors of the lists below pipeline p that are no pipelines,
\* left to right and depth first: a nested pipeline stands for its own list.
FlatLeavesOf(list) ==
    IF list = <<>> THEN <<>>
    ELSE (IF IsPipeline(Head(list)) THEN FlatLeaves(Head(list)[2]) ELSE <<Head(list)>>)
         \o FlatLeavesOf(Tail(list))

FlatLeaves(p) == FlatLeavesOf(args[p])

\* metricsCapableDescendants() as the spec describes it.
MetricsCapableDescendants(p) ==
    SelectSeqBy(FlatLeaves(p), {x \in Leaves : CanGenerateMetrics(x)})

\* C4: processors_with_metrics() returns the metrics-capable leaves below
\* the pipeline, left to right and depth first, each nested pipeline
\* replaced by its own result; no pipeline and no boundary processor is in
\* the result.
C4_MetricsDescendants ==
    query.of # "" =>
        /\ query.result = MetricsCapableDescendants(query.of)
        /\ \A i \in 1..Len(query.result) :
              /\ query.result[i] \notin Pipelines \cup Boundaries
              /\ CanGenerateMetrics(query.result[i])

\* The top pipeline was asked with capable leaves at all three depths below
\* it, a leaf that is not capable among them.
C4_Witness ==
    /\ query.of = Top
    /\ Len(args["P"]) = 3
    /\ query.result = <<Leaf("A"), Leaf("D"), Leaf("E")>>

\* ------------------------------------------------------ reading the log

IsPrefix(s, t) == Len(s) <= Len(t) /\ \A i \in 1..Len(s) : s[i] = t[i]

Callbacks == {"upstream_push_frame", "downstream_push_frame"}

\* Whether a log entry is one of pipeline p's chain: a processor of the
\* chain seeing a frame, or one of p's two bridging callbacks being called.
InView(p, e) ==
    \/ e.op = "process_frame" /\ e.node \in Range(SpecChain(p))
    \/ e.op \in Callbacks /\ e.node = Pipe(p)

\* What pipeline p's chain saw of frame f, in order.
View(p, f) ==
    LET Mine(e) == e.frame.id = f /\ InView(p, e)
    IN SelectSeq(log, Mine)

\* The traversal the spec promises for a frame given to pipeline p.
Expected(p, frame, dir) ==
    LET chain == IF dir = DOWNSTREAM THEN SpecChain(p) ELSE Reverse(SpecChain(p))
        exit == IF dir = DOWNSTREAM THEN "downstream_push_frame" ELSE "upstream_push_frame"
    IN [i \in 1..Len(chain) |-> Seen("process_frame", chain[i], frame, dir)]
       \o <<Seen(exit, Pipe(p), frame, dir)>>

\* The process_frame calls pipeline p got, in order.
Given(p) ==
    LET Mine(e) == e.op = "process_frame" /\ e.node = Pipe(p)
    IN SelectSeq(log, Mine)

Idle == stack = <<>>

\* C2: a frame given DOWNSTREAM to a pipeline is seen by its source, its
\* user processors in list order and its sink, once each and in that order,
\* then leaves through the sink's callback once; the source's callback is
\* never called for it.  (Stated of the returned call: the log only
\* grows, so every earlier state saw a prefix of this traversal.)
C2_ForwardOrder ==
    Idle =>
        \A p \in built :
            LET given == Given(p)
            IN \A k \in 1..Len(given) :
                  given[k].dir = DOWNSTREAM =>
                      View(p, given[k].frame.id) = Expected(p, given[k].frame, DOWNSTREAM)

\* A DOWNSTREAM frame has gone through a three-processor chain with a nested
\* pipeline and left through the top pipeline's sink.
C2_Witness ==
    /\ Idle
    /\ Len(args[Top]) = 3
    /\ \E k \in 1..Len(submitted) :
          /\ submitted[k].dir = DOWNSTREAM
          /\ \E i \in 1..Len(log) :
                log[i] = Seen("downstream_push_frame", Pipe(Top), submitted[k].frame, DOWNSTREAM)

\* C3: a frame given UPSTREAM to a pipeline is seen by its sink, its user
\* processors in reverse list order and its source, once each and in that
\* order, then leaves through the source's callback once and is routed no
\* further in the chain; the sink's callback is never called for it.
C3_BackwardOrder ==
    Idle =>
        \A p \in built :
            LET given == Given(p)
            IN \A k \in 1..Len(given) :
                  given[k].dir = UPSTREAM =>
                      View(p, given[k].frame.id) = Expected(p, given[k].frame, UPSTREAM)

\* An UPSTREAM frame has gone through a three-processor chain with a nested
\* pipeline and left through the top pipeline's source.
C3_Witness ==
    /\ Idle
    /\ Len(args[Top]) = 3
    /\ \E k \in 1..Len(submitted) :
          /\ submitted[k].dir = UPSTREAM
          /\ \E i \in 1..Len(log) :
                log[i] = Seen("upstream_push_frame", Pipe(Top), submitted[k].frame, UPSTREAM)

\* The places in the log where pipeline p got a StartFrame in direction dir
\* with its metrics enabled.
MetricsStarts(p, dir) ==
    {i \in 1..Len(log) :
        /\ log[i].op = "process_frame" /\ log[i].node = Pipe(p)
        /\ log[i].frame.kind = "StartFrame" /\ log[i].dir = dir
        /\ metrics_enabled[p]}

\* The mapping the spec promises for pipeline p's snapshot.
Baseline(p) == [n \in {Name(x) : x \in Range(MetricsCapableDescendants(p))} |-> 0]

\* C5: a StartFrame sent DOWNSTREAM to a pipeline with metrics enabled makes
\* it synthesize a MetricsFrame whose dict has exactly the names of its
\* metrics-capable descendants as keys, each with value 0; for the list
\* {A capable, B not capable, C = Pipeline([D capable])} it is {A: 0, D: 0}.
C5_Baseline ==
    Idle =>
        \A p \in built : \A i \in MetricsStarts(p, DOWNSTREAM) :
            /\ i < Len(log)
            /\ log[i + 1].op = "process_frame"
            /\ log[i + 1].node = Src(p)
            /\ log[i + 1].frame.kind = "MetricsFrame"
            /\ log[i + 1].frame.ttfb = Baseline(p)
            /\ (/\ p = Top
                /\ Range(args[Top]) = {Leaf("A"), Leaf("B"), Pipe("C")}
                /\ args["C"] = <<Leaf("D")>>)
               => log[i + 1].frame.ttfb = [n \in {"A", "D"} |-> 0]

\* The spec's example has run: {A, B, C = Pipeline([D])} with metrics
\* enabled got a StartFrame DOWNSTREAM.
C5_Witness ==
    /\ Idle
    /\ Range(args[Top]) = {Leaf("A"), Leaf("B"), Pipe("C")}
    /\ args["C"] = <<Leaf("D")>>
    /\ MetricsStarts(Top, DOWNSTREAM) # {}

\* The places in the log that are about frame f.
Idx(f) == {j \in 1..Len(log) : log[j].frame.id = f}

\* C6: when a pipeline with metrics enabled gets a StartFrame DOWNSTREAM,
\* the MetricsFrame it synthesizes is seen by every processor of its chain
\* and leaves through the sink's callback, and everything that sees that
\* MetricsFrame, in the chain or downstream of it, sees it before the source
\* or any processor after it sees the StartFrame: the two traversals do not
\* interleave.
C6_BaselineFirst ==
    Idle =>
        \A p \in built : \A i \in MetricsStarts(p, DOWNSTREAM) :
            /\ i < Len(log)
            /\ log[i + 1].frame.kind = "MetricsFrame"
            /\ View(p, log[i + 1].frame.id) = Expected(p, log[i + 1].frame, DOWNSTREAM)
            /\ \E b \in Idx(log[i].frame.id) : b > i /\ log[b].node = Src(p)
            /\ \A a \in Idx(log[i + 1].frame.id) : \A b \in Idx(log[i].frame.id) :
                  b > i => a < b

\* A StartFrame went DOWNSTREAM through a metrics-enabled top pipeline of
\* three processors, one of them a nested pipeline.
C6_Witness ==
    /\ Idle
    /\ Len(args[Top]) = 3
    /\ \E i \in MetricsStarts(Top, DOWNSTREAM) :
          \E b \in Idx(log[i].frame.id) : log[b].op = "downstream_push_frame" /\ log[b].node = Pipe(Top)

\* The cleanup() calls on the processors of pipeline p's chain, begun and
\* ended, in order.
CleanView(p) ==
    LET Mine(e) == e[2] \in Range(SpecChain(p))
    IN SelectSeq(cleaned, Mine)

\* One cleanup() call after the other along the chain, each ended before
\* the next begins.
ExpectedClean(p) ==
    LET chain == SpecChain(p)
    IN [i \in 1..(2 * Len(chain)) |->
          IF i % 2 = 1 THEN <<"begin", chain[(i + 1) \div 2]>> ELSE <<"end", chain[i \div 2]>>]

\* C7: cleanup() of a pipeline calls cleanup() on all n+2 processors of its
\* chain, source and sink included, once each, in the order of the chain,
\* each call returning before the next is made.
C7_CleanupOrder ==
    \A p \in built :
        /\ IsPrefix(CleanView(p), ExpectedClean(p))
        /\ (closed /\ Idle) => CleanView(p) = ExpectedClean(p)

\* cleanup() of a three-level nesting with the longest lists has returned.
C7_Witness ==
    /\ closed /\ Idle
    /\ Len(args["P"]) = 3 /\ Len(args["C"]) = 2 /\ Len(args["Q"]) = 1
    /\ Len(cleaned) = 2 * (5 + 4 + 3 + 1)

\* The leaves below pipeline p that saw frame f, in order.
LeafView(p, f) ==
    LET Mine(e) == e.frame.id = f /\ e.op = "process_frame" /\ e.node \in Range(FlatLeaves(p))
        seen == SelectSeq(log, Mine)
    IN [i \in 1..Len(seen) |-> <<seen[i].node, seen[i].dir>>]

\* The order in which the chain with every nested pipeline replaced by its
\* own list sees a frame.
FlatOrder(p, dir) ==
    LET leaves == IF dir = DOWNSTREAM THEN FlatLeaves(p) ELSE Reverse(FlatLeaves(p))
    IN [i \in 1..Len(leaves) |-> <<leaves[i], dir>>]

\* The pipeline whose list holds pipeline p.
Parent(p) == CHOOSE q \in PipelineNames : Pipe(p) \in Range(args[q])

\* The neighbour of pipeline p in its parent's chain in direction dir.
Neighbour(p, dir) ==
    LET chain == SpecChain(Parent(p))
        i == CHOOSE j \in 1..Len(chain) : chain[j] = Pipe(p)
    IN IF dir = DOWNSTREAM THEN chain[i + 1] ELSE chain[i - 1]

\* C8: a nested pipeline routes like a leaf.  The leaves below a pipeline
\* see a frame given to it in the order of the flattened chain (reversed for
\* UPSTREAM), once each, and the pipeline's exit callback is called once; a
\* frame that leaves a nested pipeline through one of its boundary
\* processors is handed at once to that pipeline's neighbour in its parent's
\* chain in that direction, and a frame that leaves the top pipeline goes
\* nowhere else.
C8_NestedTransparent ==
    Idle =>
        /\ \A p \in built :
              LET given == Given(p)
              IN \A k \in 1..Len(given) :
                    /\ LeafView(p, given[k].frame.id) = FlatOrder(p, given[k].dir)
                    /\ Cardinality({j \in Idx(given[k].frame.id) :
                                      log[j].op \in Callbacks /\ log[j].node = Pipe(p)}) = 1
        /\ \A j \in 1..Len(log) :
              log[j].op \in Callbacks =>
                  /\ log[j].op = (IF log[j].dir = DOWNSTREAM THEN "downstream_push_frame"
                                  ELSE "upstream_push_frame")
                  /\ IF log[j].node = Pipe(Top)
                     THEN \A b \in Idx(log[j].frame.id) : b <= j
                     ELSE /\ j < Len(log)
                          /\ log[j + 1] = Seen("process_frame", Neighbour(log[j].node[2], log[j].dir),
                                               log[j].frame, log[j].dir)

\* Frames went both ways through [A, C, B] with C = Pipeline([D, Q]) and
\* Q = Pipeline([E]), no pipeline having metrics enabled.
C8_Witness ==
    /\ Idle
    /\ built = PipelineNames
    /\ Len(args["P"]) = 3 /\ Len(args["C"]) = 2 /\ Len(args["Q"]) = 1
    /\ \A p \in PipelineNames : ~metrics_enabled[p]
    /\ Len(submitted) = 2
    /\ submitted[1].dir = DOWNSTREAM
    /\ submitted[2].dir = UPSTREAM
    /\ LeafView(Top, 1) = <<<<Leaf("A"), DOWNSTREAM>>, <<Leaf("D"), DOWNSTREAM>>,
                            <<Leaf("E"), DOWNSTREAM>>, <<Leaf("B"), DOWNSTREAM>>>>
    /\ LeafView(Top, 2) = <<<<Leaf("B"), UPSTREAM>>, <<Leaf("E"), UPSTREAM>>,
                            <<Leaf("D"), UPSTREAM>>, <<Leaf("A"), UPSTREAM>>>>

\* C9: Pipeline([]) is valid.  Its chain is [source, sink], linked to each
\* other and to nothing else; a DOWNSTREAM frame given to it is seen by the
\* source, then the sink, then leaves through the sink's callback, and an
\* UPSTREAM frame by the sink, then the source, then leaves through the
\* source's callback; when the top pipeline is the empty one, nothing but
\* the pipeline and its two boundary processors ever sees a frame.
C9_EmptyPipeline ==
    \A p \in built :
        args[p] = <<>> =>
            /\ processors[p] = <<Src(p), Snk(p)>>
            /\ next[Src(p)] = Snk(p) /\ prev[Snk(p)] = Src(p)
            /\ prev[Src(p)] = None /\ next[Snk(p)] = None
            /\ Idle =>
                  LET given == Given(p)
                  IN \A k \in 1..Len(given) :
                        LET fr == given[k].frame
                        IN View(p, fr.id) =
                              IF given[k].dir = DOWNSTREAM
                              THEN <<Seen("process_frame", Src(p), fr, DOWNSTREAM),
                                     Seen("process_frame", Snk(p), fr, DOWNSTREAM),
                                     Seen("downstream_push_frame", Pipe(p), fr, DOWNSTREAM)>>
                              ELSE <<Seen("process_frame", Snk(p), fr, UPSTREAM),
                                     Seen("process_frame", Src(p), fr, UPSTREAM),
                                     Seen("upstream_push_frame", Pipe(p), fr, UPSTREAM)>>
            /\ p = Top => \A j \in 1..Len(log) : log[j].node \in {Pipe(p), Src(p), Snk(p)}

\* Pipeline([]) as the top pipeline routed one frame each way.
C9_Witness ==
    /\ Idle
    /\ args[Top] = <<>>
    /\ Len(submitted) = 2
    /\ submitted[1].dir = DOWNSTREAM
    /\ submitted[2].dir = UPSTREAM
    /\ \E j \in 1..Len(log) : log[j].op = "downstream_push_frame" /\ log[j].frame.id = submitted[1].frame.id
    /\ \E j \in 1..Len(log) : log[j].op = "upstream_push_frame" /\ log[j].frame.id = submitted[2].frame.id

\* C10: two frames the driver submits one after the other in the same
\* direction are delivered in that order.  When the second is submitted the
\* first has made its whole traversal, exit callback included; nothing sees
\* the second before anything sees the first or a frame synthesized for it;
\* and every processor of the chain sees the first, then the second.
C10_SubmissionOrder ==
    \A k, l \in 1..Len(submitted) :
        (k < l /\ submitted[k].dir = submitted[l].dir) =>
            LET f1 == submitted[k].frame.id
                f2 == submitted[l].frame.id
            IN /\ View(Top, f1) = Expected(Top, submitted[k].frame, submitted[k].dir)
               /\ Idle =>
                     /\ \A b \in Idx(f2) : \A a \in 1..Len(log) :
                           log[a].frame.id < f2 => a < b
                     /\ \A x \in Range(SpecChain(Top)) :
                           \E a \in Idx(f1) : \E b \in Idx(f2) :
                               /\ log[a].node = x /\ log[b].node = x
                               /\ log[a].op = "process_frame" /\ log[b].op = "process_frame"
                               /\ a < b

\* Two frames were submitted in the same direction to a chain of three
\* processors and both calls have returned.
C10_Witness ==
    /\ Idle
    /\ Len(args[Top]) = 3
    /\ Len(submitted) = 2
    /\ submitted[1].dir = submitted[2].dir
    /\ \E j \in Idx(submitted[2].frame.id) : log[j].op \in Callbacks /\ log[j].node = Pipe(Top)

Holder(p) ==
    CHOOSE x \in Range(args[p]) :
        \/ x = faulty
        \/ IsPipeline(x) /\ faulty \in Range(FlatLeaves(x[2]))

\* The log entries in which the faulty processor got a frame.
Faults == {j \in 1..Len(log) : log[j].node = faulty}

\* C12: when process_frame of a node raises while a frame traverses a
\* chain, the traversal stops there and the driver gets the exception.  Of
\* a frame given to a pipeline above the faulty processor the chain sees
\* at most the traversal up to the failing node k, and exactly that when
\* the frame reached it: the nodes before k keep what they saw, no node
\* after k sees the frame, and neither bridging callback is called for it.
\* Nothing at all is seen between the failure and the driver's next call,
\* and every failure is an exception the driver received.
C12_FailureAborts ==
    Idle =>
        /\ \A p \in built : faulty \in Range(FlatLeaves(p)) =>
              \A i \in 1..Len(Given(p)) :
                  LET g == Given(p)[i]
                      e == Expected(p, g.frame, g.dir)
                      k == CHOOSE n \in 1..Len(e) : e[n].node = Holder(p)
                      v == View(p, g.frame.id)
                  IN /\ IsPrefix(v, SubSeq(e, 1, k))
                     /\ (\E j \in Faults : log[j].frame = g.frame) => v = SubSeq(e, 1, k)
        /\ \A j \in Faults :
              \/ j = Len(log)
              \/ /\ log[j + 1] \in {Seen("process_frame", Pipe(Top), submitted[n].frame, submitted[n].dir) :
                                       n \in 1..Len(submitted)}
                 /\ log[j + 1].frame.id > log[j].frame.id
        /\ Len(raised) = Cardinality(Faults)
        /\ \A r \in 1..Len(raised) :
              \E j \in Faults :
                  /\ raised[r] = Failure("process_frame", faulty, log[j].frame)
                  /\ Cardinality({l \in Faults : l <= j}) = r

\* A processor of a nested pipeline raised for both frames the driver
\* submitted; the top chain has a user processor that saw the first frame
\* and one that did not.
C12_Witness ==
    /\ Idle
    /\ Len(raised) = 2
    /\ faulty \notin Range(args[Top])
    /\ \E x, y \in Range(args[Top]) :
          /\ IsLeaf(x) /\ IsLeaf(y)
          /\ \E j \in Idx(submitted[1].frame.id) : log[j].node = x
          /\ \A j \in Idx(submitted[1].frame.id) : log[j].node # y

\* C13: when cleanup() of a processor of the chain raises, cleanup() of the
\* pipeline still calls cleanup() on every remaining processor of the chain
\* and reports the failure to its caller.
C13_TeardownContinues ==
    (closed /\ Idle) =>
        /\ \A x \in Range(SpecChain(Top)) : <<"begin", x>> \in Range(cleaned)
        /\ raised # <<>>

\* The pipeline that synthesized frame f: the one whose source saw it first.
Origin(f) == log[CHOOSE j \in Idx(f) : \A l \in Idx(f) : j <= l].node[2]

\* The frames synthesized so far that a processor has seen.
Synthesized == {f \in 1..nframes : \E j \in Idx(f) : log[j].frame.kind = "MetricsFrame"}

\* When process_frame of the top pipeline has returned, nothing is left to
\* do for any frame: every frame given to a pipeline made its whole
\* traversal of that chain, every synthesized frame made its whole
\* traversal from the source that got it, and the last thing that happened
\* to each frame is a bridging callback of the top pipeline.
Delivered ==
    /\ \A p \in built : \A i \in 1..Len(Given(p)) :
          View(p, Given(p)[i].frame.id) = Expected(p, Given(p)[i].frame, Given(p)[i].dir)
    /\ \A f \in Synthesized :
          \E j \in Idx(f) : View(Origin(f), f) = Expected(Origin(f), log[j].frame, DOWNSTREAM)
    /\ \A f \in 1..nframes : \E j \in Idx(f) :
          /\ log[j].op \in Callbacks
          /\ log[j].node = Pipe(Top)
          /\ \A l \in Idx(f) : l <= j

\* What is left to do counts down: a measure of the call chain (its
\* coroutines that have not started, the calls they have yet to make, its
\* depth) less what has been seen and synthesized so far.
Backlog ==
    Len(stack)
    + Cardinality({k \in 1..Len(stack) : stack[k].pc = "start"})
    + 3 * Cardinality({<<k, n>> \in (1..Len(stack)) \X (1..2) : n <= Len(stack[k].todo)})
    - 5 * Len(log)
    - 2 * nframes

\* C14: process_frame is awaited to completion.  When it has returned to
\* the driver the frame, and the metrics frame synthesized for it, have been
\* seen by every processor on their path and have left through the exit
\* callback; nothing is seen after the return until the driver submits
\* again; and a call that was made always returns: the call chain can
\* always take a step (a coroutine that is done returns, any other has a
\* step enabled), and every step of it lowers Backlog, so no run stays in
\* the call for ever.
C14_AwaitedToCompletion ==
    /\ [](Idle => Delivered)
    /\ [][Idle => log' = log]_vars
    /\ [](~Idle => (Cur.pc = "done" \/ ENABLED Run))
    /\ [][~Idle => Backlog' < Backlog]_vars

\* A metrics-enabled top pipeline with a nested pipeline was given a
\* StartFrame and a plain frame, and both calls have returned.
C14_Witness ==
    /\ Idle
    /\ Len(submitted) = 2
    /\ nframes >= 3
    /\ metrics_enabled[Top]
    /\ Pipe("C") \in Range(args[Top])
    /\ Delivered

\* The adjacent pairs of the chains built so far.
ChainPairs ==
    UNION {{<<SpecChain(p)[i], SpecChain(p)[i + 1]>> : i \in 1..(Len(SpecChain(p)) - 1)} : p \in built}

\* C15: the chain is written once, at construction.  Every adjacent pair of
\* a built chain was linked exactly once and nothing else was linked; links
\* are made by construction steps only; and no step, of routing, of
\* _send_initial_metrics, of processors_with_metrics or of cleanup, changes
\* the list of a built pipeline, its source or sink, or the forward or
\* backward link of a processor of its chain.
C15_ChainReadOnly ==
    /\ [](/\ Range(links) = ChainPairs
          /\ Len(links) = Cardinality(ChainPairs)
          /\ \A p \in built : processors[p] = SpecChain(p))
    /\ [][links' # links => built' # built]_vars
    /\ [][\A p \in built :
             /\ processors'[p] = processors[p]
             /\ source'[p] = source[p]
             /\ sink'[p] = sink[p]
             /\ \A x \in Range(processors[p]) : next'[x] = next[x] /\ prev'[x] = prev[x]]_vars

\* A three-level nesting was built, routed two frames, answered a
\* processors_with_metrics() call and was cleaned up.
C15_Witness ==
    /\ built = PipelineNames
    /\ Len(links) = 9
    /\ Len(submitted) = 2
    /\ asked >= 1
    /\ closed
    /\ Idle

\* Where in the log pipeline p got its process_frame calls, in order.
GivenAt(p) ==
    LET Mine(j) == log[j].op = "process_frame" /\ log[j].node = Pipe(p)
    IN SelectSeq([j \in 1..Len(log) |-> j], Mine)

\* The frames pipeline p's chain saw as a result of the i-th call it got:
\* between that call and the next one.
Traversing(p, i) ==
    LET from == GivenAt(p)[i]
        to == IF i < Len(GivenAt(p)) THEN GivenAt(p)[i + 1] ELSE Len(log) + 1
    IN {log[j].frame.id : j \in {l \in from..(to - 1) : InView(p, log[l])}}

RECURSIVE Inside(_)
\* The pipelines nested in pipeline p, at any depth.
Inside(p) ==
    LET kids == {x[2] : x \in {y \in Range(args[p]) : IsPipeline(y)}}
    IN kids \cup UNION {Inside(k) : k \in kids}

\* C16 as stated: a pipeline synthesizes a metrics frame exactly for a
\* StartFrame with its metrics enabled, one per call, and for any other
\* frame, or with its metrics disabled, the only frame that traverses its
\* chain as a result of the call is the frame it was given.
C16_OnlySubmitted ==
    Idle =>
        \A p \in built : \A i \in 1..Len(GivenAt(p)) :
            LET g == log[GivenAt(p)[i]]
                own == {f \in Traversing(p, i) : f # g.frame.id /\ Origin(f) = p}
            IN IF g.frame.kind = "StartFrame" /\ metrics_enabled[p]
               THEN Cardinality(own) = 1
               ELSE Traversing(p, i) = {g.frame.id}

\* C16, amended: a pipeline synthesizes a metrics frame exactly for a
\* StartFrame with its metrics enabled, one per call.  Besides the frame it
\* was given and that metrics frame, the only frames that traverse its
\* chain as a result of the call are the metrics frames of the
\* metrics-enabled pipelines nested in it, one each, and only for a
\* StartFrame.
C16_OneBaselinePerStart ==
    Idle =>
        \A p \in built : \A i \in 1..Len(GivenAt(p)) :
            LET g == log[GivenAt(p)[i]]
                start == g.frame.kind = "StartFrame"
                others == Traversing(p, i) \ {g.frame.id}
                own == {f \in others : Origin(f) = p}
            IN /\ g.frame.id \in Traversing(p, i)
               /\ Cardinality(own) = IF start /\ metrics_enabled[p] THEN 1 ELSE 0
               /\ \A f \in others : f \in Synthesized
               /\ {Origin(f) : f \in others \ own} =
                     IF start THEN {q \in Inside(p) : metrics_enabled[q]} ELSE {}
               /\ Cardinality(others \ own) = Cardinality({Origin(f) : f \in others \ own})

\* A top pipeline with metrics disabled, holding a nested pipeline with
\* metrics enabled and a processor after it, was given a StartFrame and a
\* plain frame, and both calls have returned.
C16_Witness ==
    /\ Idle
    /\ Len(submitted) = 2
    /\ submitted[1].frame.kind = "StartFrame"
    /\ submitted[2].frame.kind = "Frame"
    /\ ~metrics_enabled[Top]
    /\ metrics_enabled["C"]
    /\ args[Top] = PoolOrder(Top)
    /\ nframes >= 3

\* C17: the initial MetricsFrame goes DOWNSTREAM from the source whatever
\* the direction of the StartFrame.  When a pipeline with metrics enabled
\* gets a StartFrame UPSTREAM, the MetricsFrame is seen by the source, the
\* user processors in list order and the sink, and leaves through the
\* downward callback; only after all of that the StartFrame is seen by the
\* sink, the user processors in reverse order and the source, and leaves
\* through the upward callback.
C17_BaselineForward ==
    Idle =>
        \A p \in built : \A i \in MetricsStarts(p, UPSTREAM) :
            /\ i < Len(log)
            /\ log[i + 1].op = "process_frame"
            /\ log[i + 1].node = Src(p)
            /\ log[i + 1].dir = DOWNSTREAM
            /\ log[i + 1].frame.kind = "MetricsFrame"
            /\ View(p, log[i + 1].frame.id) = Expected(p, log[i + 1].frame, DOWNSTREAM)
            /\ View(p, log[i].frame.id) = Expected(p, log[i].frame, UPSTREAM)
            /\ \A a \in Idx(log[i + 1].frame.id) : \A b \in Idx(log[i].frame.id) :
                  b > i => a < b

\* A StartFrame went UPSTREAM through a metrics-enabled top pipeline of
\* three processors and the call has returned.
C17_Witness ==
    /\ Idle
    /\ args[Top] = PoolOrder(Top)
    /\ MetricsStarts(Top, UPSTREAM) # {}
    /\ \E j \in 1..Len(log) :
          /\ log[j].op = "upstream_push_frame"
          /\ log[j].node = Pipe(Top)
          /\ log[j].frame.kind = "StartFrame"

\* Where in the log node x got frame f.
SawAt(x, f) ==
    {j \in 1..Len(log) : log[j].op = "process_frame" /\ log[j].node = x /\ log[j].frame.id = f}

\* Node x saw frame a before frame b.
SawBefore(x, a, b) == \E i \in SawAt(x, a) : \E j \in SawAt(x, b) : i < j

\* Two frames submitted DOWNSTREAM were seen in one order by one node and
\* in the other order by another.
Inverted ==
    \E k, l \in 1..Len(submitted) :
        /\ k # l
        /\ submitted[k].dir = DOWNSTREAM
        /\ submitted[l].dir = DOWNSTREAM
        /\ \E x, y \in Range(SpecChain(Top)) \cup {Pipe(Top)} :
              /\ SawBefore(x, submitted[k].frame.id, submitted[l].frame.id)
              /\ SawBefore(y, submitted[l].frame.id, submitted[k].frame.id)

\* No call is running or suspended.
Quiet == stack = <<>> /\ parked = <<>>

\* C18: the pipeline has no mutual exclusion.  With two callers and every
\* await a point where the other may run, two DOWNSTREAM frames can be seen
\* in opposite orders by two nodes; this happens only when a call was made
\* while another had not returned.  When the calls were made one after the
\* other, every node of the chain has seen the DOWNSTREAM frames in the
\* order they were submitted.
C18_NoMutualExclusion ==
    /\ ~overlapped => ~Inverted
    /\ (Quiet /\ ~overlapped) =>
          \A k, l \in 1..Len(submitted) :
              (k < l /\ submitted[k].dir = DOWNSTREAM /\ submitted[l].dir = DOWNSTREAM) =>
                  \A x \in Range(SpecChain(Top)) \cup {Pipe(Top)} :
                      SawBefore(x, submitted[k].frame.id, submitted[l].frame.id)

\* Two overlapping calls: the first user processor saw the first frame
\* before the second, the last one saw the second before the first.
C18_Witness ==
    /\ Quiet
    /\ overlapped
    /\ Len(submitted) = 2
    /\ args[Top] = <<Leaf("A"), Leaf("B")>>
    /\ SawBefore(Leaf("A"), submitted[1].frame.id, submitted[2].frame.id)
    /\ SawBefore(Leaf("B"), submitted[2].frame.id, submitted[1].frame.id)
    /\ Inverted

RECURSIVE EnabledIn(_)
\* The metrics-enabled pipelines in a list of processors and below it, in
\* the order a DOWNSTREAM frame reaches them.
EnabledIn(list) ==
    IF list = <<>> THEN <<>>
    ELSE LET h == Head(list)
         IN (IF IsPipeline(h)
             THEN (IF metrics_enabled[h[2]] THEN <<h[2]>> ELSE <<>>) \o EnabledIn(args[h[2]])
             ELSE <<>>)
            \o EnabledIn(Tail(list))

\* What a frame is, apart from its identity.
Shape(frame) == [kind |-> frame.kind, ttfb |-> frame.ttfb]

\* What is to be observed where the metrics-enabled pipelines qs lie
\* upstream: pipeline p's snapshot, theirs, then the StartFrame.
SnapshotsThenStart(p, qs) ==
    <<[kind |-> "MetricsFrame", ttfb |-> Baseline(p)]>>
    \o [n \in 1..Len(qs) |-> [kind |-> "MetricsFrame", ttfb |-> Baseline(qs[n])]]
    \o <<[kind |-> "StartFrame", ttfb |-> NoTtfb]>>

\* What (op, x) observed as a result of the i-th call pipeline p got.
Observed(p, i, op, x) ==
    LET from == GivenAt(p)[i]
        to == IF i < Len(GivenAt(p)) THEN GivenAt(p)[i + 1] ELSE Len(log) + 1
        Mine(e) == e.op = op /\ e.node = x
        es == SelectSeq(SubSeq(log, from + 1, to - 1), Mine)
    IN [n \in 1..Len(es) |-> Shape(es[n].frame)]

\* C19: a nested pipeline with metrics enabled sends its own initial
\* metrics when the StartFrame reaches it.  For a StartFrame given
\* DOWNSTREAM to a metrics-enabled pipeline, every node of its chain
\* observes that pipeline's snapshot (all flattened descendants), then one
\* snapshot of each metrics-enabled pipeline nested upstream of the node
\* (its own descendants only), then the StartFrame; the downward callback
\* observes the same with every nested pipeline upstream.  So with one
\* metrics-enabled nested pipeline the nodes after it and the callback see
\* two snapshots before the StartFrame, the nodes before it one.
C19_NestedBaseline ==
    Idle =>
        \A p \in built : \A i \in 1..Len(GivenAt(p)) :
            LET g == log[GivenAt(p)[i]]
                chain == SpecChain(p)
            IN (g.frame.kind = "StartFrame" /\ g.dir = DOWNSTREAM /\ metrics_enabled[p]) =>
                  /\ \A n \in 1..Len(chain) :
                        Observed(p, i, "process_frame", chain[n]) =
                            SnapshotsThenStart(p, EnabledIn(SubSeq(chain, 1, n - 1)))
                  /\ Observed(p, i, "downstream_push_frame", Pipe(p)) =
                        SnapshotsThenStart(p, EnabledIn(chain))

\* The top pipeline [A, C, B] and the nested C = [D] both have metrics
\* enabled; a StartFrame went DOWNSTREAM: A saw {A: 0, D: 0} and the
\* StartFrame, B saw {A: 0, D: 0}, then {D: 0}, then the StartFrame.
C19_Witness ==
    /\ Idle
    /\ args[Top] = PoolOrder(Top)
    /\ args["C"] = <<Leaf("D")>>
    /\ metrics_enabled[Top] /\ metrics_enabled["C"]
    /\ Len(GivenAt(Top)) = 1
    /\ Observed(Top, 1, "process_frame", Leaf("A")) =
          <<[kind |-> "MetricsFrame", ttfb |-> [n \in {"A", "D"} |-> 0]],
            [kind |-> "StartFrame", ttfb |-> NoTtfb]>>
    /\ Observed(Top, 1, "process_frame", Leaf("B")) =
          <<[kind |-> "MetricsFrame", ttfb |-> [n \in {"A", "D"} |-> 0]],
            [kind |-> "MetricsFrame", ttfb |-> [n \in {"D"} |-> 0]],
            [kind |-> "StartFrame", ttfb |-> NoTtfb]>>

RECURSIVE DeepClean(_), DeepCleanList(_)
\* Depth-first teardown of node x: x begins, then the nodes of its chain in
\* order if it is a pipeline, each with all that is below it, then x ends.
DeepClean(x) ==
    <<<<"begin", x>>>>
    \o (IF IsPipeline(x) THEN DeepCleanList(SpecChain(x[2])) ELSE <<>>)
    \o <<<<"end", x>>>>

DeepCleanList(list) ==
    IF list = <<>> THEN <<>> ELSE DeepClean(Head(list)) \o DeepCleanList(Tail(list))

\* C20: cleanup() of a pipeline reaches every node at every depth, the
\* source and sink of every nested pipeline included, once each, depth
\* first and left to right: the cleanup() calls made so far are always a
\* prefix of the depth-first teardown, in which the whole chain of a nested
\* pipeline is cleaned up before the parent's next node begins, and when
\* cleanup() has returned they are all of it.
C20_DeepCleanup ==
    /\ IsPrefix(cleaned, DeepClean(Pipe(Top)))
    /\ (closed /\ Idle) =>
          /\ cleaned = DeepClean(Pipe(Top))
          /\ \A p \in built : \A x \in Range(SpecChain(p)) \cup {Pipe(p)} :
                Cardinality({j \in 1..Len(cleaned) : cleaned[j] = <<"begin", x>>}) = 1

\* cleanup() of [A, C = [D, Q = [E]], B] has returned: the sink of Q ended
\* before the sink of C began, and the sink of C ended before B began.
C20_Witness ==
    /\ closed /\ Idle
    /\ \A p \in PipelineNames : args[p] = PoolOrder(p)
    /\ \E i, j, k, l \in 1..Len(cleaned) :
          /\ cleaned[i] = <<"end", Snk("Q")>>
          /\ cleaned[j] = <<"begin", Snk("C")>>
          /\ cleaned[k] = <<"end", Snk("C")>>
          /\ cleaned[l] = <<"begin", Leaf("B")>>
          /\ i < j /\ j < k /\ k < l

====
